---------------------------- MODULE Spec2Model ----------------------------
(***************************************************************************)
(* Model of the CAPTCHA pipeline of src/src/process.rs (ImageProcessor)    *)
(* and of its owner src/src/lib.rs (Parser).                               *)
(*                                                                         *)
(* Conventions                                                             *)
(*  - A Rust Vec<T> is a TLA+ sequence.  Rust indexes from 0, TLA+ from 1: *)
(*    the element the code reads as v[i] is v[i + 1] here.  Get(v, i)      *)
(*    takes the 0-based index of the code.                                 *)
(*  - An operation that can panic (unwrap on None, slice out of range,     *)
(*    division by zero, a failed assert!) returns a record                 *)
(*    [panic |-> BOOLEAN, why |-> STRING, val |-> ...].                    *)
(*  - An f64 is a fixed-point integer: the value v is the integer          *)
(*    v * SCALE.  The modelled weights and biases are whole numbers, so    *)
(*    sums and products are exact; exp is a table (ExpTable) and a         *)
(*    quotient is truncated to 1/SCALE.                                    *)
(***************************************************************************)
EXTENDS Integers, Sequences, FiniteSets, TLC

VARIABLES
    weights,        \* ImageProcessor.weights : Vec<Vec<f64>>
    biases,         \* ImageProcessor.biases  : Vec<f64>
    pc,             \* position of the running call ("idle": no call runs)
    byte_array,     \* the argument of process
    pixels,         \* process_pixels: its argument
    sat,            \* process_pixels: let sat
    def,            \* process_pixels: let def
    block_list,     \* process_pixels: let block_list
    a,              \* process_pixels: blocks of block_list consumed so far
    processed,      \* loop body: let processed (of the last block)
    arr,            \* loop body: let arr (of the last block)
    index_of_max,   \* loop body: let index_of_max (of the last block)
    captcha_text,   \* process_pixels: let mut captcha_text
    outcome,        \* what the last finished call gave its caller
    history         \* the calls finished so far: <<byte_array, outcome>>

vars == <<weights, biases, pc, byte_array, pixels, sat, def, block_list, a,
          processed, arr, index_of_max, captcha_text, outcome, history>>

-----------------------------------------------------------------------------
(* Program constants *)

HEIGHT == 40

WIDTH == 200

CAPTCHA_CHARS ==
    << "A", "B", "C", "D", "E", "F", "G", "H", "J", "K", "L", "M",
       "N", "P", "Q", "R", "S", "T", "U", "V", "W", "X", "Y", "Z",
       "2", "3", "4", "5", "6", "7", "8", "9" >>

\* get_blocks: while a < 6
NBLOCKS == 6

\* pre_process: avg / (24 * 22)
BLOCK_CELLS == 24 * 22

-----------------------------------------------------------------------------
(* Vec, Option and panics *)

Ok(v) == [panic |-> FALSE, why |-> "", val |-> v]

Panic(why) == [panic |-> TRUE, why |-> why, val |-> <<>>]

UNWRAP_NONE == "unwrap on None"

DIV_ZERO == "attempt to divide by zero"

SLICE_RANGE == "range end index out of range for slice"

ASSERT_FAILED == "assertion failed"

\* a Vec built from its entries: the sequence f, held as an explicit tuple
Vec(f) == f \o <<>>

\* v.get(i).unwrap() on an index the caller has found in range
Get(v, i) == v[i + 1]

\* v.get(i) is Some
InRange(v, i) == i >= 0 /\ i < Len(v)

Min2(x, y) == IF x <= y THEN x ELSE y

Max2(x, y) == IF x >= y THEN x ELSE y

\* `as u8` of a non-negative integer: the low 8 bits
AsU8(n) == n % 256

\* v[lo..hi] on a range the caller has found inside v
Slice(v, lo, hi) == Vec([i \in 1..(hi - lo) |-> v[lo + i]])

\* lo..hi is a range of v (the slice does not panic)
SliceOk(v, lo, hi) == lo <= hi /\ hi <= Len(v)

-----------------------------------------------------------------------------
(* f64 as fixed point *)

SCALE == 1000

\* exp(n) * SCALE, rounded, for the whole numbers n in -7 .. 7
ExpTable ==
    << 1, 2, 7, 18, 50, 135, 368,
       1000,
       2718, 7389, 20086, 54598, 148413, 403429, 1096633 >>

\* f64::exp of a fixed-point whole number inside the table
Exp(v) == ExpTable[(v \div SCALE) + 8]

\* f64 division
FDiv(x, y) == (x * SCALE) \div y

-----------------------------------------------------------------------------
(* The model store.  crate::weights::DATA is modelled by its shape, the    *)
(* one the specification gives (528 rows of 33 columns, 33 biases), with   *)
(* values drawn from the families below: whole numbers small enough for    *)
(* every logit to lie inside ExpTable.                                     *)

\* columns of the weight matrix, entries of the bias vector
Y == 33

\* rows of the weight matrix
Z == 528

\* the weight families: w = 0 is the zero matrix; w = 1 adds cell k of the
\* first two rows of cells to column k mod Y; any other w subtracts
\* cell k < Y from column k
WeightsOf(w) ==
    Vec([k1 \in 1..Z |-> Vec([j1 \in 1..Y |->
        LET k == k1 - 1
            j == j1 - 1
        IN  CASE w = 0 -> 0
              [] w = 1 -> IF k % Y = j /\ k < 2 * Y THEN SCALE ELSE 0
              [] OTHER -> IF k = j THEN 0 - SCALE ELSE 0])])

\* the bias families: b = 0 is the zero vector; b = 1 has two equal maxima,
\* at columns 5 and 17; any other b has its maximum at the last column
BiasesOf(b) ==
    Vec([j1 \in 1..Y |->
        LET j == j1 - 1
        IN  CASE b = 0 -> 0
              [] b = 1 -> IF j \in {5, 17} THEN 3 * SCALE ELSE 0
              [] OTHER -> IF j = Y - 1 THEN 5 * SCALE ELSE 0])

-----------------------------------------------------------------------------
(* process.rs: the stages *)

\* saturate: one output byte per started group of 4 input bytes.  Round q
\* (index = 4 * q) unwraps the bytes at index + 1 and index + 2, which only
\* the last round can miss, and then divides by max_value; the rounds run
\* in order, so a zero max_value in a whole group panics before a short
\* last group does.
saturate(px) ==
    LET n == Len(px)
        iters == (n + 3) \div 4
        short(q) == 4 * q + 2 >= n
        r(q) == Get(px, 4 * q)
        g(q) == Get(px, 4 * q + 1)
        b(q) == Get(px, 4 * q + 2)
        min_value(q) == Min2(r(q), Min2(g(q), b(q)))
        max_value(q) == Max2(r(q), Max2(g(q), b(q)))
    IN  IF \E q \in 0..(iters - 1) : ~short(q) /\ max_value(q) = 0
        THEN Panic(DIV_ZERO)
        ELSE IF \E q \in 0..(iters - 1) : short(q)
        THEN Panic(UNWRAP_NONE)
        ELSE Ok(Vec([q1 \in 1..iters |->
                    AsU8(((max_value(q1 - 1) - min_value(q1 - 1)) * 255)
                         \div max_value(q1 - 1))]))

\* flatten: the rows of block one after the other
flatten(block) ==
    LET cols == Len(block[1])
    IN  Vec([k1 \in 1..(Len(block) * cols) |->
            Get(Get(block, (k1 - 1) \div cols), (k1 - 1) % cols)])

\* de_flatten: HEIGHT rows of WIDTH cells
de_flatten(saturated) ==
    IF LET n == Len(saturated)
       IN  \E i \in 0..(HEIGHT - 1) : \E j \in 0..(WIDTH - 1) :
               i * WIDTH + j >= n
    THEN Panic(UNWRAP_NONE)
    ELSE Ok(Vec([i1 \in 1..HEIGHT |-> Vec([j1 \in 1..WIDTH |->
                Get(saturated, (i1 - 1) * WIDTH + (j1 - 1))])]))

\* get_blocks: the corners of block a
BlockX1(k) == (k + 1) * 25 + 2

\* a block that starts one row early
BlockY1Early(k) == 7 + 5 * (k % 2)

BlockY1(k) == 7 + 5 * (k % 2) + 1

BlockX2(k) == (k + 2) * 25 + 1

BlockY2(k) == 35 - 5 * ((k + 1) % 2)

\* get_blocks: deflatted[y1..y2] and, of each of its rows, s[x1..x2]
get_blocks(deflatted) ==
    IF \E k \in 0..(NBLOCKS - 1) :
           \/ ~SliceOk(deflatted, BlockY1(k), BlockY2(k))
           \/ \E y \in BlockY1(k)..(BlockY2(k) - 1) :
                 ~SliceOk(Get(deflatted, y), BlockX1(k), BlockX2(k))
    THEN Panic(SLICE_RANGE)
    ELSE Ok(Vec([k1 \in 1..NBLOCKS |->
                LET rows == Slice(deflatted, BlockY1(k1 - 1), BlockY2(k1 - 1))
                IN  Vec([i1 \in 1..Len(rows) |->
                        Slice(rows[i1], BlockX1(k1 - 1), BlockX2(k1 - 1))])]))

RECURSIVE SumRange(_, _, _)
\* s[lo] + ... + s[hi].  The terms summed here are whole numbers (bytes, or
\* fixed-point values whose sums are exact), so the order the code adds
\* them in does not change the sum; the range is halved to keep the
\* evaluation shallow.
SumRange(s, lo, hi) ==
    IF lo > hi THEN 0
    ELSE IF lo = hi THEN s[lo]
    ELSE IF hi = lo + 1 THEN s[lo] + s[hi]
    ELSE IF hi = lo + 2 THEN s[lo] + s[lo + 1] + s[hi]
    ELSE IF hi = lo + 3 THEN s[lo] + s[lo + 1] + s[lo + 2] + s[hi]
    ELSE LET mid == (lo + hi) \div 2
         IN  SumRange(s, lo, mid) + SumRange(s, mid + 1, hi)

\* pre_process: the sum of the block's cells (avg before the division)
BlockSum(block) ==
    LET rowsum == [i1 \in 1..Len(block) |->
                      SumRange(block[i1], 1, Len(block[i1]))]
    IN  SumRange(rowsum, 1, Len(rowsum))

\* pre_process: (avg as u8) after avg = avg / (24 * 22).  The sum is a whole
\* number below 2^53, so the f64 quotient truncates to the integer quotient;
\* the cast saturates at 255.
AvgAsU8(sum) ==
    LET q == sum \div BLOCK_CELLS
    IN  IF q > 255 THEN 255 ELSE q

\* a binarizer that also sets the cells equal to the truncated average
pre_processAtLeast(block) ==
    LET avg == AvgAsU8(BlockSum(block))
        len == Len(block[1])
    IN  Vec([i1 \in 1..Len(block) |-> Vec([j1 \in 1..len |->
            IF block[i1][j1] >= avg THEN 1 ELSE 0])])

\* pre_process: 1 where the cell is above the truncated average
pre_process(block) ==
    LET avg == AvgAsU8(BlockSum(block))
        len == Len(block[1])
    IN  Vec([i1 \in 1..Len(block) |-> Vec([j1 \in 1..len |->
            IF block[i1][j1] > avg THEN 1 ELSE 0])])

\* mat_multiply: product[i][j] after the z rounds of its inner loop
Dot(row, w, j1, z) ==
    SumRange([k1 \in 1..z |-> row[k1] * w[k1][j1]], 1, z)

\* mat_multiply
mat_multiply(matrix, w) ==
    IF Len(w) = 0 THEN Panic(UNWRAP_NONE)
    ELSE LET x == Len(matrix)
             z == Len(matrix[1])
             y == Len(w[1])
         IN  IF Len(w) # z THEN Panic(ASSERT_FAILED)
             ELSE Ok(Vec([i1 \in 1..x |-> Vec([j1 \in 1..y |->
                        Dot(matrix[i1], w, j1, z)])]))

\* mat_add
mat_add(first, second) ==
    IF \E i \in 0..(Len(first) - 1) : ~InRange(second, i)
    THEN Panic(UNWRAP_NONE)
    ELSE Ok(Vec([i1 \in 1..Len(first) |-> first[i1] + second[i1]]))

\* softmax: s after the n rounds of its first loop
ExpSum(v, n) == SumRange([i1 \in 1..n |-> Exp(v[i1])], 1, n)

\* softmax: n_arr starts as a clone of arg and the quotients are pushed
softmax(arg) ==
    LET s == ExpSum(arg, Len(arg))
    IN  arg \o [i1 \in 1..Len(arg) |-> FDiv(Exp(arg[i1]), s)]

RECURSIVE MaxByFirst(_, _, _)
\* a scan that keeps the first of several equal maxima
MaxByFirst(v, lo, hi) ==
    IF lo = hi THEN lo
    ELSE LET mid == (lo + hi) \div 2
             left == MaxByFirst(v, lo, mid)
             right == MaxByFirst(v, mid + 1, hi)
         IN  IF Get(v, left) >= Get(v, right) THEN left ELSE right

RECURSIVE MaxBy(_, _, _)
\* Iterator::max_by over the entries lo .. hi (0-based, lo <= hi): the index
\* kept.  The scan replaces its running maximum by the next entry unless
\* the running maximum compares Greater, so of an earlier and a later
\* candidate the earlier survives only if it is Greater; the range is
\* halved to keep the evaluation shallow.
MaxBy(v, lo, hi) ==
    IF lo = hi THEN lo
    ELSE LET mid == (lo + hi) \div 2
             left == MaxBy(v, lo, mid)
             right == MaxBy(v, mid + 1, hi)
         IN  IF Get(v, left) > Get(v, right) THEN left ELSE right

\* arr.iter().enumerate().max_by(total_cmp).map(index).unwrap()
ArgMax(v) == IF Len(v) = 0 THEN Panic(UNWRAP_NONE) ELSE Ok(MaxBy(v, 0, Len(v) - 1))

\* CAPTCHA_CHARS.get(i..i + 1).unwrap()
CharAt(i) ==
    IF i + 1 <= Len(CAPTCHA_CHARS) THEN Ok(Get(CAPTCHA_CHARS, i))
    ELSE Panic(UNWRAP_NONE)

\* the body of the loop of process_pixels on one block, to its panic or end
Classify(block, w, bs) ==
    LET prc == pre_process(block)
        flattened == <<flatten(prc)>>
        multiplied == mat_multiply(flattened, w)
        added == IF multiplied.panic THEN multiplied
                 ELSE mat_add(multiplied.val[1], bs)
        sm == IF added.panic THEN <<>> ELSE softmax(added.val)
        im == IF added.panic THEN added ELSE ArgMax(sm)
        ch == IF im.panic THEN im ELSE CharAt(im.val)
    IN  [panic |-> ch.panic, why |-> ch.why, processed |-> prc,
         added |-> added.val, arr |-> sm,
         index_of_max |-> IF im.panic THEN 0 ELSE im.val,
         char |-> IF ch.panic THEN "" ELSE ch.val]

-----------------------------------------------------------------------------
(* The inputs of a call *)

\* the differently seeded varied images
NumSeeds == 2

\* the calls one Parser serves in SpecCalls
MaxCalls == 3

\* bytes that decode to an image of len bytes of pattern pat ("gray": every
\* pixel (128,128,128); "red": every pixel (255,0,0); "black": gray with
\* one pixel (0,0,0); "grad": channels that vary with the pixel and seed)
Img(len, pat, seed) == [jpeg |-> TRUE, len |-> len, pat |-> pat, seed |-> seed]

NotJpeg == [jpeg |-> FALSE, len |-> 0, pat |-> "gray", seed |-> 0]

\* channel c (0 = R .. 3 = A) of pixel p of the decoded image
PixelAt(pat, seed, p, c) ==
    CASE c = 3 -> 255
      [] pat = "gray" -> 128
      [] pat = "red" -> IF c = 0 THEN 255 ELSE 0
      [] pat = "black" -> IF p = 4321 THEN 0 ELSE 128
      [] OTHER ->
           CASE c = 0 -> 1 + ((p * (7 + seed) + 31 * seed) % 255)
             [] c = 1 -> (p * 13 + (p \div WIDTH) * 5 * seed) % 256
             [] OTHER -> (p * 3 + seed) % 256

\* reader.decode()?.to_rgba8().into_raw(): the decoder is outside this
\* repository; it hands over the bytes of the image the input encodes
Decode(ba) ==
    Vec([i1 \in 1..ba.len |->
        PixelAt(ba.pat, ba.seed, (i1 - 1) \div 4, (i1 - 1) % 4)])

FULL == 4 * HEIGHT * WIDTH

ByteArrays ==
    {NotJpeg, Img(FULL, "gray", 0), Img(FULL, "red", 0),
     Img(FULL, "black", 0)}
      \cup {Img(FULL + d, "gray", 0) : d \in {0 - 4, 1, 2, 3, 4}}
      \cup {Img(FULL, "grad", s) : s \in 1..NumSeeds}

CallByteArrays == {NotJpeg, Img(FULL, "grad", 1), Img(FULL - 4, "gray", 0)}

-----------------------------------------------------------------------------
(* What a call gives its caller *)

NoOutcome == [kind |-> "None", text |-> <<>>, err |-> ""]

OkOutcome(text) == [kind |-> "Ok", text |-> text, err |-> ""]

ErrOutcome(e) == [kind |-> "Err", text |-> <<>>, err |-> e]

PanicOutcome(why) == [kind |-> "Panic", text |-> <<>>, err |-> why]

NoLocals ==
    /\ pixels' = <<>>
    /\ sat' = <<>>
    /\ def' = <<>>
    /\ block_list' = <<>>
    /\ a' = 0
    /\ processed' = <<>>
    /\ arr' = <<>>
    /\ index_of_max' = 0
    /\ captcha_text' = <<>>

-----------------------------------------------------------------------------
(* The state machine *)

\* Parser::new, ImageProcessor::new
Init ==
    /\ weights \in {WeightsOf(w) : w \in {0, 1, 2}}
    /\ biases \in {BiasesOf(b) : b \in {0, 1, 2}}
    /\ pc = "idle"
    /\ byte_array = NotJpeg
    /\ pixels = <<>>
    /\ sat = <<>>
    /\ def = <<>>
    /\ block_list = <<>>
    /\ a = 0
    /\ processed = <<>>
    /\ arr = <<>>
    /\ index_of_max = 0
    /\ captcha_text = <<>>
    /\ outcome = NoOutcome
    /\ history = <<>>

\* Parser::parse_from_bytes (parse_from_file, parse_from_base64 after their
\* read): the caller hands over one of the inputs
Call(inputs) ==
    /\ pc = "idle"
    /\ \E ba \in inputs : byte_array' = ba
    /\ pc' = "process"
    /\ outcome' = NoOutcome
    /\ NoLocals
    /\ UNCHANGED <<weights, biases, history>>

parse_from_bytes == Call(ByteArrays)

\* ImageProcessor::process: decode, `?` on its error
process ==
    /\ pc = "process"
    /\ IF byte_array.jpeg
       THEN /\ pixels' = Decode(byte_array)
            /\ pc' = "saturate"
            /\ UNCHANGED outcome
       ELSE /\ outcome' = ErrOutcome("DecodeError")
            /\ pc' = "return"
            /\ UNCHANGED pixels
    /\ UNCHANGED <<weights, biases, byte_array, sat, def, block_list, a,
                   processed, arr, index_of_max, captcha_text, history>>

\* process_pixels: let sat = saturate(&pixels)
Saturate ==
    /\ pc = "saturate"
    /\ LET r == saturate(pixels)
       IN  IF r.panic
           THEN /\ outcome' = PanicOutcome(r.why)
                /\ pc' = "return"
                /\ UNCHANGED sat
           ELSE /\ sat' = r.val
                /\ pc' = "de_flatten"
                /\ UNCHANGED outcome
    /\ UNCHANGED <<weights, biases, byte_array, pixels, def, block_list, a,
                   processed, arr, index_of_max, captcha_text, history>>

\* process_pixels: let def = de_flatten(&sat)
DeFlatten ==
    /\ pc = "de_flatten"
    /\ LET r == de_flatten(sat)
       IN  IF r.panic
           THEN /\ outcome' = PanicOutcome(r.why)
                /\ pc' = "return"
                /\ UNCHANGED def
           ELSE /\ def' = r.val
                /\ pc' = "get_blocks"
                /\ UNCHANGED outcome
    /\ UNCHANGED <<weights, biases, byte_array, pixels, sat, block_list, a,
                   processed, arr, index_of_max, captcha_text, history>>

\* process_pixels: let block_list = get_blocks(&def)
GetBlocks ==
    /\ pc = "get_blocks"
    /\ LET r == get_blocks(def)
       IN  IF r.panic
           THEN /\ outcome' = PanicOutcome(r.why)
                /\ pc' = "return"
                /\ UNCHANGED block_list
           ELSE /\ block_list' = r.val
                /\ pc' = "loop"
                /\ UNCHANGED outcome
    /\ UNCHANGED <<weights, biases, byte_array, pixels, sat, def, a,
                   processed, arr, index_of_max, captcha_text, history>>

\* a round whose mat_add adds into the biases in place
ClassifyBlockInPlace ==
    /\ pc = "loop"
    /\ a < Len(block_list)
    /\ LET r == Classify(Get(block_list, a), weights, biases)
       IN  /\ processed' = r.processed
           /\ arr' = r.arr
           /\ index_of_max' = r.index_of_max
           /\ biases' = r.added
           /\ IF r.panic
              THEN /\ outcome' = PanicOutcome(r.why)
                   /\ pc' = "return"
                   /\ UNCHANGED <<captcha_text, a>>
              ELSE /\ captcha_text' = Append(captcha_text, r.char)
                   /\ a' = a + 1
                   /\ UNCHANGED <<outcome, pc>>
    /\ UNCHANGED <<weights, byte_array, pixels, sat, def, block_list,
                   history>>

\* process_pixels: one round of for block in block_list.iter()
ClassifyBlock ==
    /\ pc = "loop"
    /\ a < Len(block_list)
    /\ LET r == Classify(Get(block_list, a), weights, biases)
       IN  /\ processed' = r.processed
           /\ arr' = r.arr
           /\ index_of_max' = r.index_of_max
           /\ IF r.panic
              THEN /\ outcome' = PanicOutcome(r.why)
                   /\ pc' = "return"
                   /\ UNCHANGED <<captcha_text, a>>
              ELSE /\ captcha_text' = Append(captcha_text, r.char)
                   /\ a' = a + 1
                   /\ UNCHANGED <<outcome, pc>>
    /\ UNCHANGED <<weights, biases, byte_array, pixels, sat, def, block_list,
                   history>>

\* process_pixels: Ok(captcha_text)
Finish ==
    /\ pc = "loop"
    /\ a = Len(block_list)
    /\ outcome' = OkOutcome(captcha_text)
    /\ pc' = "return"
    /\ UNCHANGED <<weights, biases, byte_array, pixels, sat, def, block_list,
                   a, processed, arr, index_of_max, captcha_text, history>>

\* the call ends: its locals are dropped and the caller holds the outcome
Return(hist) ==
    /\ pc = "return"
    /\ pc' = "idle"
    /\ NoLocals
    /\ history' = hist
    /\ UNCHANGED <<weights, biases, byte_array, outcome>>

Next ==
    \/ parse_from_bytes
    \/ process
    \/ Saturate
    \/ DeFlatten
    \/ GetBlocks
    \/ ClassifyBlock
    \/ Finish
    \/ Return(history)

Spec == Init /\ [][Next]_vars

\* One Parser serving up to MaxCalls calls, each call and what it gave
\* recorded in history
InitCalls ==
    /\ Init
    /\ weights = WeightsOf(1)
    /\ biases \in {BiasesOf(1), BiasesOf(2)}

NextCalls ==
    \/ Len(history) < MaxCalls /\ Call(CallByteArrays)
    \/ process
    \/ Saturate
    \/ DeFlatten
    \/ GetBlocks
    \/ ClassifyBlock
    \/ Finish
    \/ Return(Append(history, <<byte_array, outcome>>))

SpecCalls == InitCalls /\ [][NextCalls]_vars

-----------------------------------------------------------------------------
(* The claims *)

\* the call has gone past the stage that leaves pc at one of these
PastSaturate == pc \in {"de_flatten", "get_blocks", "loop", "return"}

\* the 0-based index of the block the loop body ran on last
LastBlock == IF outcome.kind = "Panic" THEN a ELSE a - 1

\* the loop body has run in this call
Classified == arr # <<>>

Chars == {CAPTCHA_CHARS[i] : i \in 1..Len(CAPTCHA_CHARS)}

\* C1: a call on a 200x40 image (32000 bytes), whatever the channel values
\* and the model, ends with a text of exactly 6 characters of the alphabet,
\* never with a fault.
C1_SixCharacters ==
    (pc = "return" /\ byte_array.jpeg /\ Len(pixels) = FULL)
        => /\ outcome.kind = "Ok"
           /\ Len(outcome.text) = 6
           /\ \A i \in 1..Len(outcome.text) : outcome.text[i] \in Chars

\* C2: a saturation buffer whose length is not 8000 never gets past the
\* reshape stage, and its call ends with the error value ShapeError: no
\* fault, no text.
C2_ShapeError ==
    /\ pc \in {"get_blocks", "loop"} => Len(sat) = HEIGHT * WIDTH
    /\ (pc = "return" /\ byte_array.jpeg /\ ~saturate(pixels).panic
            /\ Len(sat) # HEIGHT * WIDTH)
          => outcome = ErrOutcome("ShapeError")

\* C3: saturate gives, for every pixel, (max - min) * 255 / max truncated
\* when max > 0 and 0 when max = 0, and does not fault on a buffer of
\* whole pixels.
C3_SaturationFormula ==
    (byte_array.jpeg /\ PastSaturate /\ Len(pixels) % 4 = 0)
        => /\ Len(sat) = Len(pixels) \div 4
           /\ \A q \in 0..(Len(sat) - 1) :
                LET r == pixels[4 * q + 1]
                    g == pixels[4 * q + 2]
                    b == pixels[4 * q + 3]
                    mx == Max2(r, Max2(g, b))
                    mn == Min2(r, Min2(g, b))
                IN  /\ sat[q + 1] = IF mx = 0 THEN 0
                                    ELSE ((mx - mn) * 255) \div mx
                    /\ (r = g /\ g = b) => sat[q + 1] = 0
                    /\ (r = 255 /\ g = 0 /\ b = 0) => sat[q + 1] = 255

\* C4: the alphabet has as many characters as the model has classes (Y),
\* so the lookup of every class index 0 .. Y - 1 the argmax step selects
\* yields a character.
C4_AlphabetCoversClasses ==
    (pc = "return" /\ Classified /\ index_of_max \in 0..(Y - 1))
        => /\ outcome.kind # "Panic"
           /\ Len(CAPTCHA_CHARS) = Y

\* C5: of a saturation buffer of length 8000, block a (0 .. 5) has 22 rows
\* of 24 cells, lies inside the 40x200 grid, and its cell (r, c) is
\* buffer[(y1 + r) * 200 + (x1 + c)], x1 = (a + 1) * 25 + 2,
\* y1 = 8 + 5 * (a mod 2).
C5_BlockGeometry ==
    (block_list # <<>> /\ Len(sat) = 8000)
        => /\ Len(block_list) = 6
           /\ \A k \in 0..5 :
                LET x1 == (k + 1) * 25 + 2
                    y1 == 8 + 5 * (k % 2)
                    block == block_list[k + 1]
                IN  /\ Len(block) = 22
                    /\ y1 + 22 <= 40
                    /\ x1 + 24 <= 200
                    /\ (k = 0) => (y1 = 8 /\ x1 = 27)
                    /\ (k = 1) => (y1 = 13 /\ x1 = 52)
                    /\ \A r \in 0..21 :
                         /\ Len(block[r + 1]) = 24
                         /\ \A c \in 0..23 :
                              block[r + 1][c + 1]
                                 = sat[(y1 + r) * 200 + (x1 + c) + 1]

\* a call on a varied image holds its blocks
C5_Witness ==
    /\ pc = "loop"
    /\ Len(sat) = 8000
    /\ byte_array.pat = "grad"
    /\ block_list[1] # block_list[2]
    /\ block_list[1][1] # block_list[1][2]

\* the threshold of a block: the whole number t with
\* t * 528 <= sum of the cells < (t + 1) * 528
FloorMean(block) ==
    LET total == SumRange(flatten(block), 1, 528)
    IN  CHOOSE t \in 0..255 : t * 528 <= total /\ total < (t + 1) * 528

\* C6: the binarized block has the dimensions of its block and entries 0
\* or 1, a cell being 1 exactly when its raw value is strictly greater than
\* floor(sum of the block's 528 cells / 528).
C6_Binarization ==
    Classified
        => LET block == block_list[LastBlock + 1]
               t == FloorMean(block)
           IN  /\ Len(processed) = 22
               /\ \A r \in 1..22 :
                    /\ Len(processed[r]) = 24
                    /\ \A c \in 1..24 :
                         /\ processed[r][c] \in {0, 1}
                         /\ processed[r][c] = 1 <=> block[r][c] > t

\* a block with a mean that is no whole number, a cell at the threshold and
\* a cell just above it has been binarized
C6_Witness ==
    /\ Classified
    /\ LET block == block_list[LastBlock + 1]
           cells == flatten(block)
           t == FloorMean(block)
       IN  /\ SumRange(cells, 1, 528) % 528 # 0
           /\ \E k \in 1..528 : cells[k] = t
           /\ \E k \in 1..528 : cells[k] = t + 1

\* two calls finished with the same input gave the same outcome
SameInputSameOutcome ==
    \A i, j \in 1..Len(history) :
        history[i][1] = history[j][1] => history[i][2] = history[j][2]

\* C7: no step of any call changes the weights or the biases, and two calls
\* of one sequence given the same input give the same outcome, whatever
\* ran before or between them.
C7_NoHiddenState ==
    /\ [][weights' = weights /\ biases' = biases]_vars
    /\ []SameInputSameOutcome

\* the same image was read twice, with a failing call in between
C7_Witness ==
    /\ Len(history) = 3
    /\ history[1][1] = history[3][1]
    /\ history[1][1] # history[2][1]
    /\ history[1][2].kind = "Ok"
    /\ history[2][2].kind # "Ok"

\* C8: the argmax step scans the Y probabilities, so the class is an index
\* 0 .. Y - 1 of a greatest probability, and the character emitted is
\* Alphabet[class].
C8_ArgmaxOverProbabilities ==
    Classified
        => /\ Len(arr) = Y
           /\ index_of_max \in 0..(Y - 1)
           /\ \A j \in 1..Len(arr) : arr[j] <= arr[index_of_max + 1]
           /\ outcome.kind # "Panic"
           /\ captcha_text[Len(captcha_text)] = CAPTCHA_CHARS[index_of_max + 1]

\* C9: a pixel buffer whose length is no multiple of 4 makes saturate fail
\* with the error value ShapeError: no fault, no saturation buffer.
C9_NotMultipleOfFour ==
    (byte_array.jpeg /\ Len(pixels) % 4 # 0 /\ PastSaturate)
        => /\ pc = "return"
           /\ outcome = ErrOutcome("ShapeError")

\* C10: of several equally maximal entries of the scanned vector the argmax
\* step selects the one with the greatest index.
C10_LastMaximum ==
    Classified
        => \A i \in 0..(Len(arr) - 1) :
              /\ Get(arr, i) <= Get(arr, index_of_max)
              /\ i > index_of_max => Get(arr, i) < Get(arr, index_of_max)

\* the scanned vector had its maximum at two places
C10_Witness ==
    /\ Classified
    /\ outcome.kind # "Panic"
    /\ \E i \in 0..(Len(arr) - 1) :
          i < index_of_max /\ Get(arr, i) = Get(arr, index_of_max)

=============================================================================
